---- MODULE Spec2Model ----
(***************************************************************************)
(* Model of the data-access layer of the Solar Challenge dashboard         *)
(* (src/src/data_loader.py): path validation, CSV loading with timestamp   *)
(* coercion, and the query operations over the loaded table; and of the    *)
(* CSV export of the dashboard (src/app/main.py).                          *)
(*                                                                         *)
(* Every call is one action.  `world` is the path the session works on and *)
(* what the file system holds there; `call` records the last call and its  *)
(* arguments, `ret` the value it returned, `exc` the exception it raised,  *)
(* and `df` is the DataFrame the caller currently holds.  `cache` is what   *)
(* the dashboard's st.cache_data has stored for load_data_cached.          *)
(***************************************************************************)
EXTENDS Integers, Sequences, FiniteSets, TLC

VARIABLES world, call, ret, exc, df, cache

vars == <<world, call, ret, exc, df, cache>>

(***************************************************************************)
(* Bounds of the model.                                                    *)
(***************************************************************************)
\* longest file, in data rows
MaxRows == 2
\* last instant that occurs in a file or as a filter bound
MaxTick == 2

(***************************************************************************)
(* Generic helpers.                                                        *)
(***************************************************************************)
Range(s) == {s[i] : i \in DOMAIN s}

SeqsUpTo(S, n) == UNION {[1..k -> S] : k \in 0..n}

(***************************************************************************)
(* Python / pandas values.  Every value is a tagged record.                *)
(***************************************************************************)
None == [t |-> "None"]
NaT == [t |-> "NaT"]
NaN == [t |-> "NaN"]
Timestamp(k) == [t |-> "Timestamp", v |-> k]
\* a datetime.date: a calendar day, without a time of day
Date(day) == [t |-> "date", v |-> day]
Number(n) == [t |-> "number", v |-> n]
Str(text) == [t |-> "str", v |-> text]
Tuple(a, b) == [t |-> "tuple", a |-> a, b |-> b]
List(s) == [t |-> "list", v |-> s]
\* A DataFrame: the column labels in order, the dtype of each column, and
\* the rows in order, each with its index label and its cell per column.
DataFrame(columns, dtypes, rows) ==
  [t |-> "DataFrame", columns |-> columns, dtypes |-> dtypes, rows |-> rows]
Row(idx, cells) == [idx |-> idx, cells |-> cells]

\* what `ret` holds when the call raised instead of returning
NoReturn == [t |-> "raised"]
\* what `exc` holds when the call returned normally
NoExc == [type |-> "", msg |-> <<>>]
Raise(type, msg) == [type |-> type, msg |-> msg]

(***************************************************************************)
(* Time.  An instant is a tick: two ticks a day, 00:00 and 12:00.          *)
(***************************************************************************)
Slots == {0, 1}
Ticks == 0..MaxTick
Tick(day, slot) == day * Cardinality(Slots) + slot
DateOf(tick) == tick \div Cardinality(Slots)
SlotOf(tick) == tick % Cardinality(Slots)

(***************************************************************************)
(* The file system and the text of a file.                                 *)
(*                                                                         *)
(* A path is its text split where pathlib splits it: the part before the   *)
(* final suffix and the suffix.  The empty string is the path with both    *)
(* parts empty.                                                            *)
(***************************************************************************)
Path(stem, suffix) == [stem |-> stem, suffix |-> suffix]

Paths ==
  { Path("", ""),
    Path("data/cleaned/benin_clean", ".csv"),
    Path("notes", ".TXT"),
    Path("export", ".json"),
    Path("data/cleaned", "") }

\* str.lower() on the suffixes that occur
Lower(s) ==
  CASE s = ".CSV" -> ".csv"
    [] s = ".TXT" -> ".txt"
    [] s = ".JSON" -> ".json"
    [] OTHER -> s

\* A cell of the file, as text.
IsoText(day, slot) == [kind |-> "iso", day |-> day, slot |-> slot]
JunkText == [kind |-> "junk"]
EmptyText == [kind |-> "empty"]
NumText(n) == [kind |-> "num", v |-> n]

\* a datetime text without a time of day, e.g. "2021-08-09": midnight
DateText(day) == [kind |-> "date", day |-> day]

\* the text of the instant `tick`, e.g. "2021-08-09 12:00"
TickText(tick) == IsoText(DateOf(tick), SlotOf(tick))

TimestampTexts == {TickText(k) : k \in Ticks} \cup {JunkText, EmptyText}

FileHeaders ==
  { <<>>,
    <<"Timestamp", "GHI">>,
    <<"Tamb", "Timestamp", "GHI">>,
    <<"Comments", "Tamb", "GHI">>,
    <<"Comments">> }

\* Line i of a file under `header`: its Timestamp field is `ts`, and every
\* other column carries the number i.
Line(header, i, ts) == [c \in Range(header) |-> IF c = "Timestamp" THEN ts ELSE NumText(i)]

\* The files under `header`: up to MaxRows lines, any Timestamp texts.
FilesOf(header) ==
  LET texts == IF "Timestamp" \in Range(header) THEN TimestampTexts ELSE {EmptyText}
  IN  { [header |-> header, lines |-> [i \in DOMAIN tss |-> Line(header, i, tss[i])]] :
          tss \in SeqsUpTo(texts, MaxRows) }

Files == UNION {FilesOf(h) : h \in FileHeaders}

\* What the file system holds at a path.  `kind` is what stat() reports;
\* for a regular file, `read` says whether open()/the tokenizer succeed.
Absent == [kind |-> "absent"]
Directory == [kind |-> "dir"]
Fifo == [kind |-> "fifo"]
Unreadable == [kind |-> "file", read |-> "oserror"]
Malformed == [kind |-> "file", read |-> "parsererror"]
Regular(file) == [kind |-> "file", read |-> "ok", file |-> file]

Entries == {Absent, Directory, Fifo, Unreadable, Malformed} \cup {Regular(f) : f \in Files}

\* pathlib.Path.exists() and pathlib.Path.is_file()
exists(entry) == entry.kind # "absent"
is_file(entry) == entry.kind = "file"

(***************************************************************************)
(* validate_file_path                                                      *)
(***************************************************************************)
\* validate_file_path with the suffix compared as written, not lower-cased
validate_file_path_CaseSensitive(file_path, entry) ==
  IF file_path.stem = "" /\ file_path.suffix = ""
  THEN Tuple(FALSE, <<"No file path provided">>)
  ELSE IF ~exists(entry)
  THEN Tuple(FALSE, <<"File does not exist: ", file_path.stem, file_path.suffix>>)
  ELSE IF ~is_file(entry)
  THEN Tuple(FALSE, <<"Path is not a file: ", file_path.stem, file_path.suffix>>)
  ELSE IF file_path.suffix \notin {".csv", ".txt"}
  THEN Tuple(FALSE, <<"File must be a CSV file, got: ", file_path.suffix>>)
  ELSE Tuple(TRUE, <<>>)

validate_file_path(file_path, entry) ==
  IF file_path.stem = "" /\ file_path.suffix = ""
  THEN Tuple(FALSE, <<"No file path provided">>)
  ELSE IF ~exists(entry)
  THEN Tuple(FALSE, <<"File does not exist: ", file_path.stem, file_path.suffix>>)
  ELSE IF ~is_file(entry)
  THEN Tuple(FALSE, <<"Path is not a file: ", file_path.stem, file_path.suffix>>)
  ELSE IF Lower(file_path.suffix) \notin {".csv", ".txt"}
  THEN Tuple(FALSE, <<"File must be a CSV file, got: ", file_path.suffix>>)
  ELSE Tuple(TRUE, <<>>)

(***************************************************************************)
(* pandas.read_csv and pandas.to_datetime                                  *)
(***************************************************************************)
\* The outcome of a library call or of a function: what it returned, or
\* what it raised.
Returned(value) == [ret |-> value, exc |-> NoExc]
Raised(type, msg) == [ret |-> NoReturn, exc |-> Raise(type, msg)]

\* The value read_csv gives one field: an empty field is NaN, a numeric
\* field is its number, any other text stays a string.
ReadCell(text) ==
  CASE text.kind = "empty" -> NaN
    [] text.kind = "num" -> Number(text.v)
    [] OTHER -> Str(text)

\* The value read_csv gives one field of a column it reads as text: an
\* empty field is NaN, any other field is the string it holds, digits too.
ReadText(text) == IF text.kind = "empty" THEN NaN ELSE Str(text)

\* The dtype read_csv infers for a column from the values of its cells.
InferDtype(cells) ==
  IF cells = {} \/ \E c \in cells : c.t = "str" THEN "object"
  ELSE IF NaN \in cells THEN "float64"
  ELSE "int64"

read_csv(entry) ==
  IF entry.read = "oserror"
  THEN Raised("PermissionError", <<"[Errno 13] Permission denied">>)
  ELSE IF entry.read = "parsererror"
  THEN Raised("ParserError", <<"Error tokenizing data. C error: EOF inside string">>)
  ELSE IF entry.file.header = <<>>
  THEN Raised("EmptyDataError", <<"No columns to parse from file">>)
  ELSE LET f == entry.file
           \* a column with a field that is not a number is read as text
           Textual(c) == \E i \in DOMAIN f.lines : f.lines[i][c].kind \notin {"empty", "num"}
           rows == [i \in DOMAIN f.lines |->
                      Row(i - 1, [c \in Range(f.header) |->
                                    IF Textual(c) THEN ReadText(f.lines[i][c])
                                    ELSE ReadCell(f.lines[i][c])])]
           dtypes == [c \in Range(f.header) |->
                        InferDtype({rows[i].cells[c] : i \in DOMAIN rows})]
       IN  Returned(DataFrame(f.header, dtypes, rows))

\* pd.to_datetime on one value.  A datetime text is the instant it
\* denotes; a missing value is NaT; text that is no datetime is NaT under
\* errors='coerce' and an error under errors='raise'.
Parseable(cell) ==
  \/ cell.t \in {"NaN", "NaT", "None", "Timestamp", "date"}
  \/ cell.t = "str" /\ cell.v.kind \in {"iso", "date"}

ParseDatetime(cell) ==
  CASE cell.t = "Timestamp" -> cell
    [] cell.t = "str" /\ cell.v.kind = "iso" -> Timestamp(Tick(cell.v.day, cell.v.slot))
    [] cell.t = "str" /\ cell.v.kind = "date" -> Timestamp(Tick(cell.v.day, 0))
    [] cell.t = "date" -> Timestamp(Tick(cell.v, 0))
    [] OTHER -> NaT

\* pd.to_datetime(series, errors=...) on the Timestamp column of `frame`,
\* assigned back to the column.
to_datetime_column(frame, errors) ==
  IF errors = "raise" /\ \E i \in DOMAIN frame.rows : ~Parseable(frame.rows[i].cells["Timestamp"])
  THEN Raised("DateParseError", <<"Unknown datetime string format, unable to parse">>)
  ELSE Returned(
         [frame EXCEPT
            !.dtypes = [@ EXCEPT !["Timestamp"] = "datetime64[ns]"],
            !.rows = [i \in DOMAIN @ |->
                        [@[i] EXCEPT !.cells = [@ EXCEPT !["Timestamp"] = ParseDatetime(@)]]]])

(***************************************************************************)
(* load_solar_data                                                         *)
(***************************************************************************)
\* errors='raise', the default of to_datetime
TimestampErrors_Raise == "raise"

\* the errors= argument of the to_datetime call
TimestampErrors == "coerce"

\* the body of the try block: read the file, convert the Timestamp column
LoadBody(entry, parse_dates) ==
  LET r == read_csv(entry)
  IN  IF r.exc # NoExc THEN r
      ELSE IF parse_dates /\ "Timestamp" \in Range(r.ret.columns)
      THEN to_datetime_column(r.ret, TimestampErrors)
      ELSE r

\* an except clause that swallows the exception and returns None
LoadFailure_ReturnNone(e) == Returned(None)

\* what the except clause raises for the exception e
LoadFailure(e) == Raised("Exception", <<"Error loading CSV file: ">> \o e.msg)

load_solar_data(file_path, parse_dates, entry) ==
  LET v == validate_file_path(file_path, entry)
  IN  IF ~v.a
      THEN Raised("FileNotFoundError", v.b)
      ELSE LET r == LoadBody(entry, parse_dates)
           IN  IF r.exc # NoExc THEN LoadFailure(r.exc) ELSE r

(***************************************************************************)
(* The query layer.  Its operations take a DataFrame whose Timestamp       *)
(* column, when it has one, holds instants (dtype datetime64[ns]).         *)
(***************************************************************************)
potential_metrics ==
  <<"GHI", "DNI", "DHI", "Tamb", "RH", "WS", "WSgust", "ModA", "ModB", "BP", "Precipitation">>

HasColumn(frame, col) == col \in Range(frame.columns)

\* get_available_metrics walking the DataFrame's columns instead of the list
get_available_metrics_ColumnOrder(frame) ==
  LET Keep(col) == col \in Range(potential_metrics)
  IN  List(SelectSeq(frame.columns, Keep))

get_available_metrics(frame) ==
  LET Keep(col) == HasColumn(frame, col)
  IN  List(SelectSeq(potential_metrics, Keep))

\* the instants of the column, missing values (NaT) left out
Instants(frame) ==
  { frame.rows[i].cells["Timestamp"].v :
      i \in {j \in DOMAIN frame.rows : frame.rows[j].cells["Timestamp"].t = "Timestamp"} }

Least(S) == CHOOSE x \in S : \A y \in S : x <= y
Greatest(S) == CHOOSE x \in S : \A y \in S : x >= y

\* Series.min(skipna=False): NaT as soon as one value is missing
SeriesMin_KeepMissing(frame) ==
  IF \/ Instants(frame) = {}
     \/ \E i \in DOMAIN frame.rows : frame.rows[i].cells["Timestamp"].t # "Timestamp"
  THEN Returned(NaT)
  ELSE Returned(Timestamp(Least(Instants(frame))))

\* Series.min() and Series.max() of the Timestamp column: missing values
\* are skipped, and the result is NaT when nothing is left.
SeriesMin(frame) ==
  IF Instants(frame) = {} THEN Returned(NaT) ELSE Returned(Timestamp(Least(Instants(frame))))
SeriesMax(frame) ==
  IF Instants(frame) = {} THEN Returned(NaT) ELSE Returned(Timestamp(Greatest(Instants(frame))))

get_date_range(frame) ==
  IF ~HasColumn(frame, "Timestamp")
  THEN Tuple(None, None)
  ELSE LET min_date == SeriesMin(frame)
           max_date == SeriesMax(frame)
       IN  IF min_date.exc # NoExc \/ max_date.exc # NoExc
           THEN Tuple(None, None)
           ELSE Tuple(min_date.ret, max_date.ret)

\* pd.to_datetime(value) with the default errors='raise'
to_datetime(value) ==
  IF Parseable(value)
  THEN Returned(ParseDatetime(value))
  ELSE Raised("DateParseError", <<"Unknown datetime string format, unable to parse">>)

\* `<` where the code has `<=`
LessEqual_Strict(cell, bound) == cell.t = "Timestamp" /\ bound.t = "Timestamp" /\ cell.v < bound.v

\* element of `df['Timestamp'] >= bound` / `df['Timestamp'] <= bound`;
\* a comparison with NaT on either side is False
GreaterEqual(cell, bound) == cell.t = "Timestamp" /\ bound.t = "Timestamp" /\ cell.v >= bound.v
LessEqual(cell, bound) == cell.t = "Timestamp" /\ bound.t = "Timestamp" /\ cell.v <= bound.v

\* df[mask] that loses the first selected row
Select_DropFirst(frame, mask) ==
  LET kept == {i \in DOMAIN frame.rows : mask[i]}
      Nth(k) == CHOOSE i \in kept : Cardinality({j \in kept : j <= i}) = k
  IN  [frame EXCEPT !.rows = [k \in 1..(Cardinality(kept) - 1) |-> frame.rows[Nth(k + 1)]]]

\* df[mask] for a boolean mask with one element per row: the rows whose
\* mask element is True, labels and order kept
Select(frame, mask) ==
  LET kept == {i \in DOMAIN frame.rows : mask[i]}
      Nth(k) == CHOOSE i \in kept : Cardinality({j \in kept : j <= i}) = k
  IN  [frame EXCEPT !.rows = [k \in 1..Cardinality(kept) |-> frame.rows[Nth(k)]]]

\* filter_by_date_range that converts the bounds before it looks for the column
filter_by_date_range_ConvertFirst(frame, start_date, end_date) ==
  LET lo == to_datetime(start_date)
      hi == to_datetime(end_date)
      mask == [i \in DOMAIN frame.rows |->
                 /\ GreaterEqual(frame.rows[i].cells["Timestamp"], lo.ret)
                 /\ LessEqual(frame.rows[i].cells["Timestamp"], hi.ret)]
  IN  IF lo.exc # NoExc THEN lo
      ELSE IF hi.exc # NoExc THEN hi
      ELSE IF ~HasColumn(frame, "Timestamp") THEN Returned(frame)
      ELSE Returned(Select(frame, mask))

filter_by_date_range(frame, start_date, end_date) ==
  IF ~HasColumn(frame, "Timestamp")
  THEN Returned(frame)
  ELSE LET lo == to_datetime(start_date)
           hi == to_datetime(end_date)
           mask == [i \in DOMAIN frame.rows |->
                      /\ GreaterEqual(frame.rows[i].cells["Timestamp"], lo.ret)
                      /\ LessEqual(frame.rows[i].cells["Timestamp"], hi.ret)]
       IN  IF lo.exc # NoExc THEN lo
           ELSE IF hi.exc # NoExc THEN hi
           ELSE Returned(Select(frame, mask))

(***************************************************************************)
(* get_summary_statistics.  A float that a reduction returns is the exact  *)
(* fraction num/den in lowest terms, and a standard deviation is the       *)
(* square root of such a fraction.                                         *)
(***************************************************************************)
RECURSIVE GCD(_, _)
GCD(a, b) == IF b = 0 THEN a ELSE GCD(b, a % b)

Float(num, den) ==
  LET g == GCD(IF num < 0 THEN -num ELSE num, den)
  IN  [t |-> "float", num |-> num \div g, den |-> den \div g]
Sqrt(x) == [t |-> "sqrt", of |-> x]

\* whether a cell is a missing value
isna(cell) == cell.t \in {"NaN", "NaT", "None"}

\* df[column].dropna(): the values of the column that are not missing, in
\* row order
dropna(frame, column) ==
  LET kept == {i \in DOMAIN frame.rows : ~isna(frame.rows[i].cells[column])}
      Nth(k) == CHOOSE i \in kept : Cardinality({j \in kept : j <= i}) = k
  IN  [k \in 1..Cardinality(kept) |-> frame.rows[Nth(k)].cells[column].v]

RECURSIVE Sum(_)
Sum(s) == IF s = <<>> THEN 0 ELSE Head(s) + Sum(Tail(s))

Squares(s) == [i \in DOMAIN s |-> s[i] * s[i]]

\* the values of s in ascending order
Sorted(s) ==
  LET Before(i) == Cardinality({j \in DOMAIN s : s[j] < s[i] \/ (s[j] = s[i] /\ j < i)})
  IN  [k \in DOMAIN s |-> s[CHOOSE i \in DOMAIN s : Before(i) = k - 1]]

\* Series.count() that counts the missing values too
SeriesCount_Len(frame, column) == Number(Len(frame.rows))

\* Series.count(): the number of values that are not missing
SeriesCount(frame, column) == Number(Len(dropna(frame, column)))

\* Series.mean() over the column with its missing values taken as 0
SeriesMean_FillZero(frame, column) ==
  IF frame.rows = <<>> THEN NaN
  ELSE Float(Sum(dropna(frame, column)), Len(frame.rows))

\* Series.mean(), .median(), .std(), .min(), .max() of a numeric column:
\* missing values are skipped (skipna=True); the result is NaN when no value
\* is left, and for std (ddof=1) when fewer than two are left.
SeriesMean(frame, column) ==
  LET x == dropna(frame, column)
  IN  IF x = <<>> THEN NaN ELSE Float(Sum(x), Len(x))

SeriesMedian(frame, column) ==
  LET x == Sorted(dropna(frame, column))
      n == Len(x)
  IN  IF n = 0 THEN NaN
      ELSE IF n % 2 = 1 THEN Float(x[(n + 1) \div 2], 1)
      ELSE Float(x[n \div 2] + x[n \div 2 + 1], 2)

SeriesStd(frame, column) ==
  LET x == dropna(frame, column)
      n == Len(x)
  IN  IF n < 2 THEN NaN
      ELSE Sqrt(Float(n * Sum(Squares(x)) - Sum(x) * Sum(x), n * (n - 1)))

SeriesMinValue(frame, column) ==
  LET x == dropna(frame, column)
  IN  IF x = <<>> THEN NaN ELSE Number(Least(Range(x)))

SeriesMaxValue(frame, column) ==
  LET x == dropna(frame, column)
  IN  IF x = <<>> THEN NaN ELSE Number(Greatest(Range(x)))

\* the keys of each stats_dict[metric], which become the columns of stats_df
StatNames == <<"Mean", "Median", "Std Dev", "Min", "Max", "Count">>

\* the dictionary stored under stats_dict[metric]
StatsOf(frame, metric) ==
  [s \in Range(StatNames) |->
     CASE s = "Mean" -> SeriesMean(frame, metric)
       [] s = "Median" -> SeriesMedian(frame, metric)
       [] s = "Std Dev" -> SeriesStd(frame, metric)
       [] s = "Min" -> SeriesMinValue(frame, metric)
       [] s = "Max" -> SeriesMaxValue(frame, metric)
       [] s = "Count" -> SeriesCount(frame, metric)]

\* the keys of stats_dict in insertion order: the names of `metrics` the
\* loop stores something under, each at its first occurrence
StatKeys(frame, metrics) ==
  LET first == {i \in DOMAIN metrics :
                  /\ HasColumn(frame, metrics[i])
                  /\ \A j \in 1..(i - 1) : metrics[j] # metrics[i]}
      Nth(k) == CHOOSE i \in first : Cardinality({j \in first : j <= i}) = k
  IN  [k \in 1..Cardinality(first) |-> metrics[Nth(k)]]

\* a loop that looks every requested name up without the membership test
get_summary_statistics_NoTest(frame, metrics) ==
  IF \E i \in DOMAIN metrics : ~HasColumn(frame, metrics[i])
  THEN Raised("KeyError", <<CHOOSE m \in Range(metrics) : ~HasColumn(frame, m)>>)
  ELSE LET keys == StatKeys(frame, metrics)
       IN  Returned(DataFrame(StatNames, [s \in Range(StatNames) |-> "float64"],
                              [k \in DOMAIN keys |-> Row(keys[k], StatsOf(frame, keys[k]))]))

\* pd.DataFrame(stats_dict).T: one row per key, labelled by the key, one
\* column per statistic; the DataFrame of an empty dictionary has neither
\* rows nor columns.
get_summary_statistics(frame, metrics) ==
  LET keys == StatKeys(frame, metrics)
  IN  IF keys = <<>>
      THEN Returned(DataFrame(<<>>, <<>>, <<>>))
      ELSE Returned(DataFrame(StatNames, [s \in Range(StatNames) |-> "float64"],
                              [k \in DOMAIN keys |-> Row(keys[k], StatsOf(frame, keys[k]))]))

(***************************************************************************)
(* get_top_hours                                                           *)
(***************************************************************************)
\* the column dtypes DataFrame.nlargest accepts
RankableDtypes == {"int64", "float64", "datetime64[ns]"}

\* df.nlargest(n, column) with the default keep='first': the rows ordered
\* by the column's value, largest first, rows of equal value in row order,
\* then the rows whose value is missing, in row order; the first n of them,
\* under their index labels.  No rows when n <= 0, and TypeError when the
\* column's dtype has no order.
nlargest(frame, n, column) ==
  IF frame.dtypes[column] \notin RankableDtypes
  THEN Raised("TypeError", <<"Column ", column, " has dtype ", frame.dtypes[column],
                             ", cannot use method 'nlargest' with this dtype">>)
  ELSE LET rows == frame.rows
           valued == {i \in DOMAIN rows : ~isna(rows[i].cells[column])}
           Value(i) == rows[i].cells[column].v
           Before(i) ==
             IF i \in valued
             THEN Cardinality({j \in valued :
                                 Value(j) > Value(i) \/ (Value(j) = Value(i) /\ j < i)})
             ELSE Cardinality(valued) + Cardinality({j \in DOMAIN rows \ valued : j < i})
           Ranked(k) == CHOOSE i \in DOMAIN rows : Before(i) = k - 1
           size == IF n <= 0 THEN 0 ELSE IF n < Len(rows) THEN n ELSE Len(rows)
       IN  Returned([frame EXCEPT !.rows = [k \in 1..size |-> rows[Ranked(k)]]])

\* frame[[first, second]]: the two columns, in the order asked for
Project(frame, first, second) ==
  [frame EXCEPT
     !.columns = <<first, second>>,
     !.dtypes = [c \in {first, second} |-> @[c]],
     !.rows = [k \in DOMAIN @ |-> [@[k] EXCEPT !.cells = [c \in {first, second} |-> @[c]]]]]

\* a result that keeps the index labels the rows had in the input
reset_index_KeepLabels(frame) == frame

\* reset_index(drop=True, inplace=True): the labels become 0, 1, 2, ...
reset_index(frame) ==
  [frame EXCEPT !.rows = [k \in DOMAIN @ |-> [@[k] EXCEPT !.idx = k - 1]]]

\* a guard that tests the metric column only
TopHoursGuard_MetricOnly(frame, metric) == ~HasColumn(frame, metric)

\* the condition under which get_top_hours returns pd.DataFrame()
TopHoursGuard(frame, metric) == ~HasColumn(frame, metric) \/ ~HasColumn(frame, "Timestamp")

get_top_hours(frame, metric, top_n) ==
  IF TopHoursGuard(frame, metric)
  THEN Returned(DataFrame(<<>>, <<>>, <<>>))
  ELSE IF ~HasColumn(frame, "Timestamp")
  THEN Raised("KeyError", <<"['Timestamp'] not in index">>)
  ELSE LET top == nlargest(frame, top_n, metric)
       IN  IF top.exc # NoExc THEN top
           ELSE Returned(reset_index(Project(top.ret, "Timestamp", metric)))

(***************************************************************************)
(* The state machine.                                                      *)
(***************************************************************************)
NoCall ==
  [op |-> "", parse_dates |-> FALSE, df |-> None, start_date |-> None, end_date |-> None,
   metrics |-> None, metric |-> None, top_n |-> None, trigger |-> None]

\* st.cache_data before anything was stored: no path has an entry
NoCache == <<>>

\* The path of the session and what it points to.  Validation reads the
\* path and the kind of the entry only, so every path is paired with every
\* kind of entry and with one sample file, and one path that passes
\* validation is paired with every file.
DataPath == Path("data/cleaned/benin_clean", ".csv")
SampleFile ==
  [header |-> <<"Timestamp", "GHI">>,
   lines |-> <<Line(<<"Timestamp", "GHI">>, 1, JunkText)>>]

Worlds ==
  {[path |-> p, entry |-> e] :
     p \in Paths, e \in {Absent, Directory, Fifo, Unreadable, Malformed, Regular(SampleFile)}}
  \cup {[path |-> DataPath, entry |-> e] : e \in Entries}

Init ==
  /\ world \in Worlds
  /\ call = NoCall
  /\ ret = None
  /\ exc = NoExc
  /\ df = None
  /\ cache = NoCache

\* validate_file_path(file_path)
ValidateFilePath ==
  /\ call' = [NoCall EXCEPT !.op = "validate_file_path"]
  /\ ret' = validate_file_path(world.path, world.entry)
  /\ exc' = NoExc
  /\ UNCHANGED <<world, df, cache>>

\* df = load_solar_data(file_path, parse_dates)
LoadSolarData ==
  \E parse_dates \in BOOLEAN :
    LET r == load_solar_data(world.path, parse_dates, world.entry)
    IN  /\ call' = [NoCall EXCEPT !.op = "load_solar_data", !.parse_dates = parse_dates]
        /\ ret' = r.ret
        /\ exc' = r.exc
        /\ df' = IF r.exc = NoExc THEN r.ret ELSE df
        /\ UNCHANGED <<world, cache>>

\* The query layer is called on a loaded DataFrame whose Timestamp column,
\* if any, was converted (app/main.py loads with parse_dates left True).
Queryable(frame) ==
  /\ frame # None
  /\ HasColumn(frame, "Timestamp") => frame.dtypes["Timestamp"] = "datetime64[ns]"

\* the values a caller passes as a filter bound: datetime text, or text
\* that is no datetime
BoundValues == {Str(TickText(k)) : k \in Ticks} \cup {Str(JunkText)}

\* get_available_metrics(df)
GetAvailableMetrics ==
  /\ Queryable(df)
  /\ call' = [NoCall EXCEPT !.op = "get_available_metrics", !.df = df]
  /\ ret' = get_available_metrics(df)
  /\ exc' = NoExc
  /\ UNCHANGED <<world, df, cache>>

\* get_date_range(df)
GetDateRange ==
  /\ Queryable(df)
  /\ call' = [NoCall EXCEPT !.op = "get_date_range", !.df = df]
  /\ ret' = get_date_range(df)
  /\ exc' = NoExc
  /\ UNCHANGED <<world, df, cache>>

\* df = filter_by_date_range(df, start_date, end_date)
FilterByDateRange ==
  /\ Queryable(df)
  /\ \E start_date \in BoundValues, end_date \in BoundValues :
       LET r == filter_by_date_range(df, start_date, end_date)
       IN  /\ call' = [NoCall EXCEPT !.op = "filter_by_date_range", !.df = df,
                                      !.start_date = start_date, !.end_date = end_date]
           /\ ret' = r.ret
           /\ exc' = r.exc
           /\ df' = IF r.exc = NoExc THEN r.ret ELSE df
  /\ UNCHANGED <<world, cache>>

Next ==
  \/ ValidateFilePath
  \/ LoadSolarData
  \/ GetAvailableMetrics
  \/ GetDateRange
  \/ FilterByDateRange

Spec == Init /\ [][Next]_vars

(***************************************************************************)
(* The statistics and ranking queries.  They read the values of a metric   *)
(* column, so they are run from sessions that have loaded files whose      *)
(* metric values vary.                                                     *)
(***************************************************************************)
\* longest metrics list passed to get_summary_statistics
MaxMetrics == 2
\* largest top_n passed to get_top_hours
MaxTopN == 2

\* a file under `header` whose line i has the Timestamp text tss[i] and the
\* text ms[i] in the column `metric`; its other columns are empty
TableFile(header, metric, tss, ms) ==
  [header |-> header,
   lines |-> [i \in DOMAIN ms |->
                [c \in Range(header) |->
                   IF c = "Timestamp" THEN tss[i] ELSE IF c = metric THEN ms[i] ELSE EmptyText]]]

\* the state of a session that has just loaded `file` from DataPath, or
\* nothing when the load fails
Loaded(file) == load_solar_data(DataPath, TRUE, Regular(file))

\* the names a caller asks statistics or a ranking for; DNI is in no file
MetricNames == {"GHI", "Tamb", "DNI"}
MetricLists == SeqsUpTo(MetricNames, MaxMetrics)

\* summary_df = get_summary_statistics(df, selected_metrics)
GetSummaryStatistics ==
  /\ Queryable(df)
  /\ \E metrics \in MetricLists :
       LET r == get_summary_statistics(df, metrics)
       IN  /\ call' = [NoCall EXCEPT !.op = "get_summary_statistics", !.df = df,
                                      !.metrics = List(metrics)]
           /\ ret' = r.ret
           /\ exc' = r.exc
  /\ UNCHANGED <<world, df, cache>>

\* top_df = get_top_hours(df, metric, top_n)
GetTopHours ==
  /\ Queryable(df)
  /\ \E metric \in {"GHI", "DNI"}, top_n \in 0..MaxTopN :
       LET r == get_top_hours(df, metric, top_n)
       IN  /\ call' = [NoCall EXCEPT !.op = "get_top_hours", !.df = df,
                                      !.metric = Str(metric), !.top_n = Number(top_n)]
           /\ ret' = r.ret
           /\ exc' = r.exc
  /\ UNCHANGED <<world, df, cache>>

\* Sessions for get_summary_statistics: files with a Timestamp column, a
\* GHI column of 10, 20, 30 or nothing per line, and a Tamb column that is
\* empty on every line.
StatsFiles ==
  { TableFile(<<"Timestamp", "GHI", "Tamb">>, "GHI", [i \in DOMAIN ms |-> TickText(0)], ms) :
      ms \in SeqsUpTo({NumText(10), NumText(20), NumText(30), EmptyText}, MaxRows + 1) }

StatsInit ==
  /\ world \in {[path |-> DataPath, entry |-> Regular(f)] : f \in StatsFiles}
  /\ call = [NoCall EXCEPT !.op = "load_solar_data", !.parse_dates = TRUE]
  /\ ret = Loaded(world.entry.file).ret
  /\ exc = NoExc
  /\ df = ret
  /\ cache = NoCache

StatsNext == GetSummaryStatistics

StatsSpec == StatsInit /\ [][StatsNext]_vars

\* Sessions for get_top_hours: files with GHI values 1, 5, 9 or nothing per
\* line, with or without a Timestamp column.  Line i is at instant i - 1,
\* and at most one line has no Timestamp text.  The session holds the
\* loaded table, or what a date filter from instant 1 on leaves of it.
TopFiles ==
  { TableFile(h, "GHI",
              [i \in DOMAIN ms |-> IF i = blank THEN EmptyText ELSE TickText(i - 1)], ms) :
      h \in {<<"Timestamp", "GHI">>, <<"GHI", "Tamb">>},
      blank \in 0..(MaxRows + 2),
      ms \in SeqsUpTo({NumText(1), NumText(5), NumText(9), EmptyText}, MaxRows + 2) }

TopInit ==
  /\ world \in {[path |-> DataPath, entry |-> Regular(f)] : f \in TopFiles}
  /\ \/ /\ call = [NoCall EXCEPT !.op = "load_solar_data", !.parse_dates = TRUE]
        /\ ret = Loaded(world.entry.file).ret
     \/ /\ call = [NoCall EXCEPT !.op = "filter_by_date_range",
                                  !.df = Loaded(world.entry.file).ret,
                                  !.start_date = Str(TickText(1)),
                                  !.end_date = Str(TickText(MaxRows + 2))]
        /\ ret = filter_by_date_range(call.df, call.start_date, call.end_date).ret
  /\ exc = NoExc
  /\ df = ret
  /\ cache = NoCache

TopNext == GetTopHours

TopSpec == TopInit /\ [][TopNext]_vars

(***************************************************************************)
(* Callers of the query layer that keep the dataset they pass in.  A       *)
(* DataFrame and a list are mutable objects: a caller that writes to the   *)
(* object a query returned writes to the query's argument too when the two *)
(* are one object.                                                         *)
(***************************************************************************)
QueryOps ==
  {"get_available_metrics", "get_date_range", "filter_by_date_range",
   "get_summary_statistics", "get_top_hours"}

\* Whether the call returned the object it was passed as df.  The only
\* return statement of the query layer that hands back a parameter is the
\* `return df` of filter_by_date_range; the others return an object built
\* in the call (a list, a tuple, df[mask], stats_df, pd.DataFrame(), a copy).
ReturnsArgument(c) ==
  c.op = "filter_by_date_range" /\ ~HasColumn(c.df, "Timestamp")

\* The sessions: a table loaded from any file, or the table without
\* columns that get_top_hours returns for a metric it does not find.
QueryInit ==
  /\ world \in {[path |-> DataPath, entry |-> Regular(f)] : f \in Files \ FilesOf(<<>>)}
  /\ \/ /\ call = [NoCall EXCEPT !.op = "load_solar_data", !.parse_dates = TRUE]
        /\ ret = Loaded(world.entry.file).ret
     \/ /\ call = [NoCall EXCEPT !.op = "get_top_hours", !.df = Loaded(world.entry.file).ret,
                                  !.metric = Str("DNI"), !.top_n = Number(MaxTopN)]
        /\ ret = get_top_hours(call.df, "DNI", MaxTopN).ret
  /\ exc = NoExc
  /\ df = ret
  /\ cache = NoCache

\* filtered = filter_by_date_range(df, start_date, end_date)
FilterQuery ==
  /\ Queryable(df)
  /\ \E start_date \in BoundValues, end_date \in BoundValues :
       LET r == filter_by_date_range(df, start_date, end_date)
       IN  /\ call' = [NoCall EXCEPT !.op = "filter_by_date_range", !.df = df,
                                      !.start_date = start_date, !.end_date = end_date]
           /\ ret' = r.ret
           /\ exc' = r.exc
  /\ UNCHANGED <<world, df, cache>>

\* The caller empties the object the last query returned, in place
\* (result.drop(result.index, inplace=True) on a table, result.clear() on
\* a list).
ModifyResult ==
  /\ call.op \in QueryOps
  /\ exc = NoExc
  /\ \/ ret.t = "DataFrame" /\ ret.rows # <<>> /\ ret' = [ret EXCEPT !.rows = <<>>]
     \/ ret.t = "list" /\ ret.v # <<>> /\ ret' = List(<<>>)
  /\ df' = IF ReturnsArgument(call) THEN ret' ELSE df
  /\ call' = [call EXCEPT !.op = "modify_result"]
  /\ UNCHANGED <<world, exc, cache>>

QueryNext ==
  \/ GetAvailableMetrics
  \/ GetDateRange
  \/ FilterQuery
  \/ GetSummaryStatistics
  \/ GetTopHours
  \/ ModifyResult

QuerySpec == QueryInit /\ [][QueryNext]_vars

(***************************************************************************)
(* The CSV export of the dashboard and the re-load of the exported file.   *)
(***************************************************************************)
\* the index= argument of the to_csv call
ExportIndex == FALSE

\* The text to_csv writes for a cell.  A missing value is the empty field;
\* an instant is written without its time of day when every instant of the
\* column is a midnight; a number is written as its digits and a string
\* as it is.
FormatCell(cell, dates_only) ==
  CASE isna(cell) -> EmptyText
    [] cell.t = "Timestamp" ->
         IF dates_only THEN DateText(DateOf(cell.v)) ELSE TickText(cell.v)
    [] cell.t = "number" -> NumText(cell.v)
    [] OTHER -> cell.v

\* df.to_csv(index=...): the header line and one line per row; with the
\* index, a first column without a name that read_csv calls "Unnamed: 0"
to_csv(frame, index) ==
  LET DatesOnly(c) ==
        \A i \in DOMAIN frame.rows :
          frame.rows[i].cells[c].t = "Timestamp" => SlotOf(frame.rows[i].cells[c].v) = 0
      data == [i \in DOMAIN frame.rows |->
                 [c \in Range(frame.columns) |->
                    FormatCell(frame.rows[i].cells[c], DatesOnly(c))]]
  IN  IF index
      THEN [header |-> <<"Unnamed: 0">> \o frame.columns,
            lines |-> [i \in DOMAIN data |->
                         [c \in {"Unnamed: 0"} \cup Range(frame.columns) |->
                            IF c = "Unnamed: 0" THEN NumText(frame.rows[i].idx)
                            ELSE data[i][c]]]]
      ELSE [header |-> frame.columns, lines |-> data]

\* where the browser saves the download
ExportPath == Path("solar_data_filtered", ".csv")

\* files with a Comments column of free text: a number, a word or nothing
\* per line; line i is at instant i - 1
CommentFiles ==
  { TableFile(<<"Timestamp", "Comments">>, "Comments",
              [i \in DOMAIN ms |-> TickText(i - 1)], ms) :
      ms \in SeqsUpTo({NumText(7), JunkText, EmptyText}, MaxRows) }

\* The sessions: a table loaded from any file; the dashboard filters it by
\* the chosen dates when the table has a date range.
ExportInit ==
  /\ world \in {[path |-> DataPath, entry |-> Regular(f)] :
                  f \in (Files \ FilesOf(<<>>)) \cup CommentFiles}
  /\ \/ /\ call = [NoCall EXCEPT !.op = "load_solar_data", !.parse_dates = TRUE]
        /\ ret = Loaded(world.entry.file).ret
     \/ \E lo \in Ticks, hi \in Ticks :
          /\ call = [NoCall EXCEPT !.op = "filter_by_date_range",
                                   !.df = Loaded(world.entry.file).ret,
                                   !.start_date = Str(TickText(lo)),
                                   !.end_date = Str(TickText(hi))]
          /\ ret = filter_by_date_range(call.df, call.start_date, call.end_date).ret
  /\ exc = NoExc
  /\ df = ret
  /\ cache = NoCache

\* csv = df.to_csv(index=False), downloaded and saved
ExportCsv ==
  /\ Queryable(df)
  /\ call' = [NoCall EXCEPT !.op = "to_csv", !.df = df]
  /\ ret' = [t |-> "csv", file |-> to_csv(df, ExportIndex)]
  /\ exc' = NoExc
  /\ world' = [path |-> ExportPath, entry |-> Regular(ret'.file)]
  /\ UNCHANGED <<df, cache>>

\* reloaded = load_solar_data(the saved download)
ReloadExport ==
  /\ world.path = ExportPath
  /\ LET r == load_solar_data(world.path, TRUE, world.entry)
     IN  /\ call' = [NoCall EXCEPT !.op = "load_solar_data", !.parse_dates = TRUE]
         /\ ret' = r.ret
         /\ exc' = r.exc
  /\ UNCHANGED <<world, df, cache>>

ExportNext == ExportCsv \/ ReloadExport

ExportSpec == ExportInit /\ [][ExportNext]_vars

(***************************************************************************)
(* The date filter of the dashboard: the table is filtered by the range    *)
(* get_date_range reported for it.  The dashboard reads the two bounds     *)
(* from a date picker, which hands back calendar days; a caller can also   *)
(* pass the two timestamps as get_date_range returned them.                *)
(***************************************************************************)
BoundForms == {"timestamp", "date"}

\* Timestamp.date(), which st.date_input applies to its value: the day of
\* the instant, its time of day dropped
date(value) == Date(DateOf(value.v))

\* the bound the filter is given for `value`
PickedBound(value, form) == IF form = "date" THEN date(value) ELSE value

RangeInit ==
  /\ world \in {[path |-> DataPath, entry |-> Regular(f)] : f \in Files \ FilesOf(<<>>)}
  /\ call = [NoCall EXCEPT !.op = "load_solar_data", !.parse_dates = TRUE]
  /\ ret = Loaded(world.entry.file).ret
  /\ exc = NoExc
  /\ df = ret
  /\ cache = NoCache

\* min_date, max_date = get_date_range(df); if both are timestamps:
\* df = filter_by_date_range(df, <min_date>, <max_date>)
FilterByOwnRange ==
  /\ call.op = "get_date_range"
  /\ call.df = df
  /\ ret.a.t = "Timestamp" /\ ret.b.t = "Timestamp"
  /\ \E form \in BoundForms :
       LET start_date == PickedBound(ret.a, form)
           end_date == PickedBound(ret.b, form)
           r == filter_by_date_range(df, start_date, end_date)
       IN  /\ call' = [NoCall EXCEPT !.op = "filter_by_date_range", !.df = df,
                                      !.start_date = start_date, !.end_date = end_date]
           /\ ret' = r.ret
           /\ exc' = r.exc
           /\ df' = IF r.exc = NoExc THEN r.ret ELSE df
  /\ UNCHANGED <<world, cache>>

RangeNext == GetDateRange \/ FilterByOwnRange

RangeSpec == RangeInit /\ [][RangeNext]_vars

(***************************************************************************)
(* The dashboard in 'Use Local Path' mode.  Streamlit runs main() from the *)
(* top on every interaction; a run starts with no table, reads the path    *)
(* from the sidebar, loads through load_data_cached when the Load Data     *)
(* button was the widget that caused the run, and draws either the         *)
(* getting-started screen or the dashboard.  The tabs below the sidebar    *)
(* section draw from df and do not rebind it while the date filter is off, *)
(* which is its value whenever the table is loaded.                        *)
(***************************************************************************)

\* the exception types `except Exception` catches
ExceptionClasses ==
  {"Exception", "FileNotFoundError", "OSError", "ValueError", "TypeError", "KeyError"}

\* load_data_cached letting the exception of the loader through
LoadOutcome_Propagate(r) ==
  [value |-> r.ret, exc |-> r.exc, errors |-> <<>>]

\* the try/except of load_data_cached around the loader's outcome r: the
\* value returned, the exception that leaves the function, and the
\* st.error messages written
LoadOutcome(r) ==
  IF r.exc # NoExc /\ r.exc.type \in ExceptionClasses
  THEN [value |-> None, exc |-> NoExc, errors |-> << <<"Error loading data: ">> \o r.exc.msg >>]
  ELSE [value |-> r.ret, exc |-> r.exc, errors |-> <<>>]

\* what @st.cache_data does with the outcome `out` of a call that ran the
\* function: an outcome that returned is stored under the path, one that
\* raised is not
Store(file_path, stored, out) ==
  IF out.exc # NoExc
  THEN [out |-> out, cache |-> stored, load |-> "raised"]
  ELSE [out |-> out, cache |-> (file_path :> out) @@ stored,
        load |-> IF out.value = None THEN "caught" ELSE "returned"]

\* @st.cache_data: the first call for a path runs the function and stores
\* what it returned together with the messages it wrote; a later call for
\* the same path returns the stored value and writes the stored messages
\* again, without reading the file.
load_data_cached(file_path, entry, stored) ==
  IF file_path \in DOMAIN stored
  THEN [out |-> stored[file_path], cache |-> stored, load |-> "hit"]
  ELSE Store(file_path, stored, LoadOutcome(load_solar_data(file_path, TRUE, entry)))

\* what made Streamlit run the script: the page was opened, the path
\* widgets changed, Load Data was clicked, or a metric or filter widget of
\* the dashboard changed
Triggers == {"open", "path", "load_button", "widget"}

\* `if file_path:`
PathGiven(file_path) == file_path # Path("", "")

\* st.sidebar.button: True in the run its click caused, False in every other
ButtonPressed(trigger) == trigger = "load_button"

\* what a run leaves on the screen
Page(screen, button, success, errors, load, queries) ==
  [t |-> "page", screen |-> screen, button |-> button, success |-> success,
   errors |-> errors, load |-> load, queries |-> queries]

\* `if file_path:` and the button inside it
Pressed(file_path, trigger) == PathGiven(file_path) /\ ButtonPressed(trigger)

\* df after the sidebar's load section: what load_data_cached gave when it
\* was called, None when it was not
LoadSection(file_path, entry, stored, trigger) ==
  IF Pressed(file_path, trigger)
  THEN load_data_cached(file_path, entry, stored)
  ELSE [out |-> [value |-> None, exc |-> NoExc, errors |-> <<>>],
        cache |-> stored, load |-> "not_called"]

\* available_metrics = get_available_metrics(df), for a df that is a table
AvailableMetrics(table) ==
  IF table \in {None, NoReturn} THEN <<>> ELSE get_available_metrics(table).v

\* the branch main takes below the sidebar
Screen(out, metrics) ==
  IF out.exc # NoExc THEN "exception"
  ELSE IF out.value = None THEN "getting_started"
  ELSE IF metrics = <<>> THEN "no_metrics"
  ELSE "dashboard"

\* the query operations main calls on its way to that branch
Queries(screen) ==
  CASE screen = "no_metrics" -> <<"get_available_metrics">>
    [] screen = "dashboard" -> <<"get_available_metrics", "get_date_range">>
    [] OTHER -> <<>>

\* the st.error messages of main itself
MainErrors(screen) ==
  IF screen = "no_metrics" THEN << <<"No valid metrics found in the dataset!">> >> ELSE <<>>

\* the rest of the run, given what the load section left
Render(file_path, pressed, loaded, screen) ==
  [df |-> IF loaded.out.exc # NoExc THEN None ELSE loaded.out.value,
   exc |-> loaded.out.exc,
   cache |-> loaded.cache,
   page |-> Page(screen, PathGiven(file_path),
                 pressed /\ loaded.out.exc = NoExc /\ loaded.out.value # None,
                 loaded.out.errors \o MainErrors(screen), loaded.load, Queries(screen))]

AfterLoad(file_path, pressed, loaded) ==
  Render(file_path, pressed, loaded, Screen(loaded.out, AvailableMetrics(loaded.out.value)))

\* One run of main(): the table it ends with, the page, the exception that
\* ended it, and the cache afterwards.
main(file_path, entry, stored, trigger) ==
  AfterLoad(file_path, Pressed(file_path, trigger),
            LoadSection(file_path, entry, stored, trigger))

\* The files behind the path widget: nothing, a directory, a file that
\* does not parse, a table with a metric, a table with none.
DashboardEntries ==
  {Absent, Directory, Malformed, Regular(SampleFile),
   Regular([header |-> <<"Comments">>,
            lines |-> <<Line(<<"Comments">>, 1, EmptyText)>>])}

DashboardWorlds ==
  {[path |-> p, entry |-> e] :
     p \in {Path("", ""), DataPath, Path("export", ".json")}, e \in DashboardEntries}

DashboardInit ==
  /\ world \in DashboardWorlds
  /\ call = NoCall
  /\ ret = None
  /\ exc = NoExc
  /\ df = None
  /\ cache = NoCache

\* Streamlit runs the script.  The first run opens the page; a click on
\* Load Data needs the button on the page, a change of a metric or filter
\* widget needs the dashboard on the page, and a change of the country or
\* of the path text brings another path into the run.
ScriptRun ==
  \E trigger \in Triggers, w \in DashboardWorlds :
    /\ trigger = "open" <=> call.op # "main"
    /\ trigger = "load_button" => ret.button
    /\ trigger = "widget" => ret.screen = "dashboard"
    /\ IF trigger = "path" THEN w.path # world.path ELSE w = world
    /\ \E run \in {main(w.path, w.entry, cache, trigger)} :
           /\ world' = w
           /\ call' = [NoCall EXCEPT !.op = "main", !.trigger = trigger]
           /\ ret' = run.page
           /\ exc' = run.exc
           /\ df' = run.df
           /\ cache' = run.cache

\* the file at the path is replaced, removed or written between two runs
FileChange ==
  /\ \E e \in DashboardEntries \ {world.entry} : world' = [world EXCEPT !.entry = e]
  /\ UNCHANGED <<call, ret, exc, df, cache>>

\* "Clear cache" of the Streamlit menu
ClearCache ==
  /\ cache # NoCache
  /\ cache' = NoCache
  /\ UNCHANGED <<world, call, ret, exc, df>>

DashboardNext == ScriptRun \/ FileChange \/ ClearCache

DashboardSpec == DashboardInit /\ [][DashboardNext]_vars

(***************************************************************************)
(* Vocabulary of the properties.                                           *)
(***************************************************************************)
\* the Schema Catalog, as the specification lists it
SchemaCatalog ==
  <<"GHI", "DNI", "DHI", "Tamb", "RH", "WS", "WSgust", "ModA", "ModB", "BP", "Precipitation">>

CatalogPosition(name) == CHOOSE i \in DOMAIN SchemaCatalog : SchemaCatalog[i] = name

\* the suffixes that are .csv or .txt up to letter case
CsvOrTxt == {".csv", ".CSV", ".Csv", ".txt", ".TXT", ".Txt"}

EmptyPath(path) == path = Path("", "")

\* the validation condition a (success, reason) pair reports
ConditionOf(result) ==
  IF result.a THEN "Valid"
  ELSE CASE result.b = <<>> -> "NoReason"
         [] Head(result.b) = "No file path provided" -> "InvalidPath"
         [] Head(result.b) = "File does not exist: " -> "NotFound"
         [] Head(result.b) = "Path is not a file: " -> "NotAFile"
         [] Head(result.b) = "File must be a CSV file, got: " -> "UnsupportedExtension"
         [] OTHER -> "Other"

\* the precedence with NotAFile reported for a directory
DirectoryPrecedence(w) ==
  IF EmptyPath(w.path) THEN "InvalidPath"
  ELSE IF w.entry.kind = "absent" THEN "NotFound"
  ELSE IF w.entry.kind = "dir" THEN "NotAFile"
  ELSE IF w.path.suffix \notin CsvOrTxt THEN "UnsupportedExtension"
  ELSE "Valid"

\* the precedence with NotAFile reported for whatever is no regular file
RegularFilePrecedence(w) ==
  IF EmptyPath(w.path) THEN "InvalidPath"
  ELSE IF w.entry.kind = "absent" THEN "NotFound"
  ELSE IF w.entry.kind # "file" THEN "NotAFile"
  ELSE IF w.path.suffix \notin CsvOrTxt THEN "UnsupportedExtension"
  ELSE "Valid"

\* a validation result is a (bool, reason) pair whose reason is empty
\* exactly on success
WellFormedResult(result) ==
  /\ result.t = "tuple"
  /\ result.a \in BOOLEAN
  /\ result.a <=> result.b = <<>>

(***************************************************************************)
(* C1: get_available_metrics returns exactly the Schema Catalog names that *)
(* are columns of the dataset, each once, in catalog order whatever the    *)
(* column order; no other column (Timestamp included) appears, and a       *)
(* dataset without catalog columns yields the empty list.                  *)
(***************************************************************************)
C1_AvailableMetrics ==
  call.op = "get_available_metrics" =>
    LET names == ret.v
        cols == Range(call.df.columns)
    IN  /\ exc = NoExc
        /\ ret.t = "list"
        /\ Range(names) = Range(SchemaCatalog) \cap cols
        /\ \A i, j \in DOMAIN names :
             i < j => CatalogPosition(names[i]) < CatalogPosition(names[j])
        /\ "Timestamp" \notin Range(names)
        /\ Range(SchemaCatalog) \cap cols = {} => names = <<>>

C1_Witness ==
  /\ call.op = "get_available_metrics"
  /\ call.df.columns = <<"Tamb", "Timestamp", "GHI">>
  /\ ret = List(<<"GHI", "Tamb">>)

(***************************************************************************)
(* C2 as stated: validate_file_path reports one outcome by the precedence  *)
(* empty path -> InvalidPath, nothing at the path -> NotFound, a directory *)
(* -> NotAFile, extension not .csv/.txt (case-insensitive) ->              *)
(* UnsupportedExtension, else success with an empty reason; every failure  *)
(* is a returned (false, reason) value.                                    *)
(***************************************************************************)
C2_DirectoryPrecedence ==
  call.op = "validate_file_path" =>
    /\ exc = NoExc
    /\ WellFormedResult(ret)
    /\ ConditionOf(ret) = DirectoryPrecedence(world)

(***************************************************************************)
(* C2 as amended: the same precedence, with NotAFile reported for every    *)
(* path that exists and is not a regular file (a directory, a FIFO, ...),  *)
(* whatever its extension.                                                 *)
(***************************************************************************)
C2_RegularFilePrecedence ==
  call.op = "validate_file_path" =>
    /\ exc = NoExc
    /\ WellFormedResult(ret)
    /\ ConditionOf(ret) = RegularFilePrecedence(world)

C2_Witness ==
  /\ call.op = "validate_file_path"
  /\ world.entry = Fifo
  /\ world.path.suffix = ".TXT"
  /\ ConditionOf(ret) = "NotAFile"

\* the type of the error raised for a path where nothing exists
NotFoundType == load_solar_data(Path("missing", ".csv"), TRUE, Absent).exc.type

(***************************************************************************)
(* C3: a validation failure of load_solar_data is raised as an error whose *)
(* type identifies the condition, so that InvalidPath, NotAFile and        *)
(* UnsupportedExtension each have a type other than the one raised for     *)
(* NotFound; nothing is read and no dataset is returned.                   *)
(***************************************************************************)
C3_TypedConditions ==
  ( /\ call.op = "load_solar_data"
    /\ RegularFilePrecedence(world) \in {"InvalidPath", "NotAFile", "UnsupportedExtension"} )
  => /\ exc # NoExc
     /\ ret = NoReturn
     /\ exc.type # NotFoundType

(***************************************************************************)
(* Vocabulary of the properties about loading and about time.              *)
(***************************************************************************)
\* the path passes validation and the file can be read as delimited text
Loadable(w) ==
  /\ RegularFilePrecedence(w) = "Valid"
  /\ w.entry.read = "ok"
  /\ w.entry.file.header # <<>>

\* the instant a datetime text denotes
InstantOf(text) == text.day * Cardinality(Slots) + text.slot

NullCell(cell) == cell.t \in {"NaT", "NaN", "None"}

\* the Timestamp cells of a DataFrame, row by row
TimestampCells(frame) == [i \in DOMAIN frame.rows |-> frame.rows[i].cells["Timestamp"]]

\* the non-null instants of a DataFrame
DatedInstants(frame) ==
  {TimestampCells(frame)[i].v : i \in {j \in DOMAIN frame.rows : ~NullCell(TimestampCells(frame)[j])}}

(***************************************************************************)
(* C4: loading a valid file with parse_dates true and a Timestamp column   *)
(* never fails on a malformed cell: every row of the file is kept, in      *)
(* order, a Timestamp cell that is no datetime becomes null and one that   *)
(* is a datetime becomes its instant.  With parse_dates false, or without  *)
(* a Timestamp column, no column is converted.                             *)
(***************************************************************************)
C4_CoerceTimestamps ==
  (call.op = "load_solar_data" /\ Loadable(world)) =>
    LET f == world.entry.file
        converted == call.parse_dates /\ "Timestamp" \in Range(f.header)
    IN  /\ exc = NoExc
        /\ ret.t = "DataFrame"
        /\ ret.columns = f.header
        /\ Len(ret.rows) = Len(f.lines)
        /\ \A i \in DOMAIN f.lines :
             /\ ret.rows[i].idx = i - 1
             /\ \A c \in Range(f.header) \ {"Timestamp"} : ret.rows[i].cells[c] = Number(i)
             /\ "Timestamp" \in Range(f.header) =>
                  LET text == f.lines[i]["Timestamp"]
                      cell == ret.rows[i].cells["Timestamp"]
                  IN  IF converted
                      THEN /\ text.kind \in {"junk", "empty"} => cell = NaT
                           /\ text.kind = "iso" => cell = Timestamp(InstantOf(text))
                      ELSE /\ cell.t \notin {"Timestamp", "NaT"}
                           /\ text.kind \in {"junk", "iso"} => cell = Str(text)
                           /\ text.kind = "empty" => cell = NaN

C4_Witness ==
  /\ call.op = "load_solar_data"
  /\ call.parse_dates
  /\ Loadable(world)
  /\ "Timestamp" \in Range(world.entry.file.header)
  /\ Len(world.entry.file.lines) = MaxRows
  /\ world.entry.file.lines[1]["Timestamp"] = JunkText
  /\ ret.t = "DataFrame"
  /\ Len(ret.rows) = MaxRows
  /\ ret.rows[1].cells["Timestamp"] = NaT

C6_NoDatesGiveNone ==
  ( /\ call.op = "get_date_range"
    /\ HasColumn(call.df, "Timestamp") => DatedInstants(call.df) = {} )
  => exc = NoExc /\ ret = Tuple(None, None)

(***************************************************************************)
(* C7: when the Timestamp column has a non-null value, get_date_range      *)
(* returns (min, max), min <= max, both timestamps of some row, with every *)
(* non-null timestamp in [min, max]; null timestamps have no influence.    *)
(***************************************************************************)
C7_DateRangeBounds ==
  ( /\ call.op = "get_date_range"
    /\ HasColumn(call.df, "Timestamp")
    /\ DatedInstants(call.df) # {} )
  => /\ exc = NoExc
     /\ ret.t = "tuple"
     /\ ret.a.t = "Timestamp" /\ ret.b.t = "Timestamp"
     /\ ret.a.v <= ret.b.v
     /\ ret.a.v \in DatedInstants(call.df) /\ ret.b.v \in DatedInstants(call.df)
     /\ \A x \in DatedInstants(call.df) : ret.a.v <= x /\ x <= ret.b.v

C7_Witness ==
  /\ call.op = "get_date_range"
  /\ HasColumn(call.df, "Timestamp")
  /\ Len(call.df.rows) = MaxRows
  /\ call.df.rows[1].cells["Timestamp"] = NaT
  /\ ret = Tuple(Timestamp(MaxTick), Timestamp(MaxTick))

\* row i of `frame` is dated within [lo, hi]
Within(frame, i, lo, hi) ==
  /\ ~NullCell(TimestampCells(frame)[i])
  /\ lo <= TimestampCells(frame)[i].v
  /\ TimestampCells(frame)[i].v <= hi

(***************************************************************************)
(* C8: on a dataset with a Timestamp column and bounds that are datetimes, *)
(* filter_by_date_range returns exactly the rows whose timestamp t is      *)
(* non-null with start <= t <= end, in their original order and with all   *)
(* columns; the result is empty when start > end.                          *)
(***************************************************************************)
C8_FilterExact ==
  ( /\ call.op = "filter_by_date_range"
    /\ HasColumn(call.df, "Timestamp")
    /\ call.start_date.v.kind = "iso"
    /\ call.end_date.v.kind = "iso" )
  => LET lo == InstantOf(call.start_date.v)
         hi == InstantOf(call.end_date.v)
         in == call.df.rows
         out == ret.rows
     IN  /\ exc = NoExc
         /\ ret.t = "DataFrame"
         /\ ret.columns = call.df.columns
         /\ \A i \in DOMAIN in :
              Within(call.df, i, lo, hi) <=> \E k \in DOMAIN out : out[k] = in[i]
         /\ \A k \in DOMAIN out : \E i \in DOMAIN in : out[k] = in[i]
         /\ \A k, l \in DOMAIN out : k < l => out[k].idx < out[l].idx
         /\ lo > hi => out = <<>>

C8_Witness ==
  /\ call.op = "filter_by_date_range"
  /\ HasColumn(call.df, "Timestamp")
  /\ Len(call.df.rows) = MaxRows
  /\ call.df.rows[1].cells["Timestamp"] = NaT
  /\ call.df.rows[MaxRows].cells["Timestamp"] = Timestamp(MaxTick)
  /\ call.end_date = Str(TickText(MaxTick))
  /\ ret.t = "DataFrame"
  /\ Len(ret.rows) = 1
  /\ ret.rows[1] = call.df.rows[MaxRows]

\* a step that filters the result of a filter again with the same bounds
SameFilterAgain ==
  /\ call.op = "filter_by_date_range"
  /\ exc = NoExc
  /\ call'.op = "filter_by_date_range"
  /\ call'.start_date = call.start_date
  /\ call'.end_date = call.end_date

(***************************************************************************)
(* C9: filter_by_date_range is idempotent: filtering the result of a       *)
(* filter again with the same bounds returns it unchanged, row for row.    *)
(***************************************************************************)
C9_FilterIdempotent ==
  [][SameFilterAgain => (call'.df = ret /\ exc' = NoExc /\ ret' = ret)]_vars

\* a filter applied to a DataFrame that an earlier filter had already cut
\* down, and that it returns as it is
C9_Witness ==
  /\ call.op = "filter_by_date_range"
  /\ world.entry.kind = "file"
  /\ Len(call.df.rows) < Len(world.entry.file.lines)
  /\ Len(call.df.rows) > 0
  /\ ret = call.df

(***************************************************************************)
(* C10: on a dataset without a Timestamp column filter_by_date_range       *)
(* returns a dataset equal to its input for any start and end, and raises  *)
(* nothing even when a bound is no valid date.                             *)
(***************************************************************************)
C10_FilterWithoutTimestamp ==
  (call.op = "filter_by_date_range" /\ ~HasColumn(call.df, "Timestamp")) =>
    /\ exc = NoExc
    /\ ret = call.df
    /\ df = call.df

C10_Witness ==
  /\ call.op = "filter_by_date_range"
  /\ ~HasColumn(call.df, "Timestamp")
  /\ call.start_date = Str(JunkText)
  /\ Len(call.df.rows) = MaxRows
  /\ exc = NoExc
  /\ ret = call.df

(***************************************************************************)
(* C11.  No query operation changes the dataset it is given, and what it   *)
(* returns is a new value: whatever get_available_metrics, get_date_range, *)
(* filter_by_date_range, get_summary_statistics and get_top_hours are      *)
(* called with, and whatever the caller later does to a returned value,    *)
(* the dataset keeps the rows, order, columns and values it had.           *)
(***************************************************************************)
C11_QueriesLeaveInput ==
  [][call'.op \in QueryOps \cup {"modify_result"} => df' = df]_vars

(***************************************************************************)
(* C12.  get_summary_statistics(ds, metrics) returns one record for each   *)
(* name of `metrics` that is a column of ds and none for any other name:   *)
(* absent names are skipped without error, and when no requested name is a *)
(* column, or `metrics` is empty, the result is an empty table.            *)
(***************************************************************************)
\* the names asked for that are columns of the dataset
PresentMetrics(c) == {m \in Range(c.metrics.v) : HasColumn(c.df, m)}

C12_StatsRecords ==
  call.op = "get_summary_statistics" =>
    /\ exc = NoExc
    /\ ret.t = "DataFrame"
    /\ {ret.rows[k].idx : k \in DOMAIN ret.rows} = PresentMetrics(call)
    /\ Len(ret.rows) = Cardinality(PresentMetrics(call))
    /\ PresentMetrics(call) = {} => ret.rows = <<>>

\* a present and an absent name were asked for, and one record came back
C12_Witness ==
  /\ call.op = "get_summary_statistics"
  /\ call.metrics = List(<<"DNI", "GHI">>)
  /\ call.df.rows # <<>>
  /\ exc = NoExc
  /\ Len(ret.rows) = 1
  /\ ret.rows[1].idx = "GHI"

(***************************************************************************)
(* C13.  For each metric column with at least one non-null value, the      *)
(* record's count is the number of non-null values, min and max are the    *)
(* least and greatest non-null value, and mean and median are those of the *)
(* non-null values only; the values 10, 20, 30 give mean 20, min 10,       *)
(* max 30, count 3.                                                        *)
(***************************************************************************)
\* the rows of the dataset whose cell in column m holds a number
ValuedRows(frame, m) == {i \in DOMAIN frame.rows : frame.rows[i].cells[m].t = "number"}

ValueAt(frame, m, i) == frame.rows[i].cells[m].v

RECURSIVE Total(_, _, _)
Total(frame, m, I) ==
  IF I = {} THEN 0
  ELSE LET i == CHOOSE j \in I : TRUE
       IN  ValueAt(frame, m, i) + Total(frame, m, I \ {i})

\* the k-th smallest of the non-null values of column m
OrderStatistic(frame, m, k) ==
  LET I == ValuedRows(frame, m)
  IN  CHOOSE v \in {ValueAt(frame, m, i) : i \in I} :
        /\ Cardinality({i \in I : ValueAt(frame, m, i) < v}) < k
        /\ k <= Cardinality({i \in I : ValueAt(frame, m, i) <= v})

StatsOverNonNull(frame, m, record) ==
  LET I == ValuedRows(frame, m)
      n == Cardinality(I)
      values == {ValueAt(frame, m, i) : i \in I}
  IN  /\ record["Count"] = Number(n)
      /\ record["Min"].t = "number"
      /\ record["Min"].v \in values
      /\ \A v \in values : record["Min"].v <= v
      /\ record["Max"].t = "number"
      /\ record["Max"].v \in values
      /\ \A v \in values : record["Max"].v >= v
      /\ record["Mean"].t = "float"
      /\ record["Mean"].num * n = record["Mean"].den * Total(frame, m, I)
      /\ record["Median"].t = "float"
      /\ 2 * record["Median"].num =
           record["Median"].den * (OrderStatistic(frame, m, (n + 1) \div 2)
                                   + OrderStatistic(frame, m, n \div 2 + 1))

\* the column holds exactly 10, 20, 30, in that order
TenTwentyThirty(frame, m) ==
  /\ Len(frame.rows) = 3
  /\ \A i \in 1..3 : frame.rows[i].cells[m] = Number(10 * i)

C13_StatsValues ==
  call.op = "get_summary_statistics" /\ exc = NoExc =>
    \A k \in DOMAIN ret.rows :
      LET m == ret.rows[k].idx
          record == ret.rows[k].cells
      IN  ValuedRows(call.df, m) # {} =>
            /\ StatsOverNonNull(call.df, m, record)
            /\ TenTwentyThirty(call.df, m) =>
                  /\ record["Mean"] = Float(20, 1)
                  /\ record["Min"] = Number(10)
                  /\ record["Max"] = Number(30)
                  /\ record["Count"] = Number(3)

\* statistics of a column with a gap: 10, nothing, 30
C13_Witness ==
  /\ call.op = "get_summary_statistics"
  /\ exc = NoExc
  /\ Len(call.df.rows) = 3
  /\ call.df.rows[1].cells["GHI"] = Number(10)
  /\ call.df.rows[2].cells["GHI"] = NaN
  /\ call.df.rows[3].cells["GHI"] = Number(30)
  /\ \E k \in DOMAIN ret.rows :
       /\ ret.rows[k].idx = "GHI"
       /\ ret.rows[k].cells["Mean"] = Float(20, 1)
       /\ ret.rows[k].cells["Median"] = Float(20, 1)
       /\ ret.rows[k].cells["Count"] = Number(2)

(***************************************************************************)
(* C14.  For a metric column that is present but has no rows, or whose     *)
(* values are all null, get_summary_statistics does not fail: it yields a  *)
(* record with count 0 and NaN for mean, median and standard deviation.    *)
(***************************************************************************)
C14_StatsOfNothing ==
  call.op = "get_summary_statistics" =>
    \A m \in PresentMetrics(call) :
      ValuedRows(call.df, m) = {} =>
        /\ exc = NoExc
        /\ \E k \in DOMAIN ret.rows :
             /\ ret.rows[k].idx = m
             /\ ret.rows[k].cells["Count"] = Number(0)
             /\ ret.rows[k].cells["Mean"] = NaN
             /\ ret.rows[k].cells["Median"] = NaN
             /\ ret.rows[k].cells["Std Dev"] = NaN

\* a record for a column without rows, or one for a column of nulls only
C14_Witness ==
  /\ call.op = "get_summary_statistics"
  /\ exc = NoExc
  /\ \/ call.df.rows = <<>> /\ call.metrics = List(<<"GHI">>)
     \/ Len(call.df.rows) = 2 /\ call.metrics = List(<<"Tamb">>)
  /\ Len(ret.rows) = 1
  /\ ret.rows[1].cells["Count"] = Number(0)
  /\ ret.rows[1].cells["Mean"] = NaN

(***************************************************************************)
(* C15.  get_top_hours returns an empty table, with no rows and no error,  *)
(* whenever the metric is not a column of the dataset or the dataset has   *)
(* no Timestamp column, for every metric name and every top_n.             *)
(***************************************************************************)
C15_TopHoursWithoutColumns ==
  /\ call.op = "get_top_hours"
  /\ ~HasColumn(call.df, call.metric.v) \/ ~HasColumn(call.df, "Timestamp")
  => /\ exc = NoExc
     /\ ret.t = "DataFrame"
     /\ ret.rows = <<>>

\* the metric is a column with values, the Timestamp column is missing
C15_Witness ==
  /\ call.op = "get_top_hours"
  /\ call.metric = Str("GHI")
  /\ call.top_n = Number(MaxTopN)
  /\ call.df.columns = <<"GHI", "Tamb">>
  /\ Len(call.df.rows) >= 2
  /\ call.df.rows[1].cells["GHI"].t = "number"
  /\ exc = NoExc
  /\ ret.rows = <<>>

(***************************************************************************)
(* C16.  When the metric and the Timestamp column both exist,              *)
(* get_top_hours(ds, metric, top_n) returns at most top_n (Timestamp,      *)
(* metric) pairs taken from rows of ds, sorted by metric value descending; *)
(* every row left out has a value <= every returned value; rows of equal   *)
(* value appear in their original order, the earlier row winning at the    *)
(* cut-off; rows (t1,5),(t2,9),(t3,9),(t4,1) with top_n = 2 give           *)
(* (t2,9),(t3,9).  Order is a statement about the values that are there:   *)
(* a null is neither above nor below a number.                             *)
(***************************************************************************)
\* whether the ranking path of get_top_hours was taken
BothColumns(c) ==
  c.op = "get_top_hours" /\ HasColumn(c.df, c.metric.v) /\ HasColumn(c.df, "Timestamp")

\* the rows of the input a returned pair can come from: same Timestamp,
\* same value
Sources(frame, m, pair) ==
  {i \in DOMAIN frame.rows :
     /\ frame.rows[i].cells["Timestamp"] = pair.cells["Timestamp"]
     /\ frame.rows[i].cells[m] = pair.cells[m]}

\* the four rows of the example, t1..t4 being the instants 0..3
ExampleRows(frame) ==
  /\ Len(frame.rows) = 4
  /\ \A i \in 1..4 : frame.rows[i].cells["Timestamp"] = Timestamp(i - 1)
  /\ <<frame.rows[1].cells["GHI"], frame.rows[2].cells["GHI"],
       frame.rows[3].cells["GHI"], frame.rows[4].cells["GHI"]>>
       = <<Number(5), Number(9), Number(9), Number(1)>>

Ranking(frame, m, top_n, out) ==
  LET Valued(cell) == cell.t = "number"
      \* the input row behind the k-th pair: Timestamps identify the rows
      Src(k) == CHOOSE i \in Sources(frame, m, out[k]) : TRUE
      chosen == {Src(k) : k \in DOMAIN out}
      In(i) == frame.rows[i].cells[m]
      Out(k) == out[k].cells[m]
  IN  /\ Len(out) <= top_n
      /\ \A k \in DOMAIN out : Sources(frame, m, out[k]) # {}
      /\ Cardinality(chosen) = Len(out)
      /\ \A k, l \in DOMAIN out :
           k < l /\ Valued(Out(k)) /\ Valued(Out(l)) =>
             /\ Out(k).v >= Out(l).v
             /\ Out(k).v = Out(l).v => Src(k) < Src(l)
      /\ \A i \in DOMAIN frame.rows \ chosen : \A k \in DOMAIN out :
           Valued(In(i)) /\ Valued(Out(k)) =>
             /\ In(i).v <= Out(k).v
             /\ In(i).v = Out(k).v => Src(k) < i

C16_TopRanking ==
  BothColumns(call) =>
    /\ exc = NoExc
    /\ ret.t = "DataFrame"
    /\ Ranking(call.df, call.metric.v, call.top_n.v, ret.rows)
    /\ ExampleRows(call.df) /\ call.top_n = Number(2) =>
         /\ Len(ret.rows) = 2
         /\ ret.rows[1].cells = [Timestamp |-> Timestamp(1), GHI |-> Number(9)]
         /\ ret.rows[2].cells = [Timestamp |-> Timestamp(2), GHI |-> Number(9)]

(***************************************************************************)
(* C17.  get_top_hours never returns a row whose metric value is null,     *)
(* and it returns exactly min(top_n, number of rows with a non-null metric *)
(* value) rows: all of them when fewer than top_n exist.  A row with a     *)
(* null Timestamp and a non-null metric value is ranked like any other.    *)
(***************************************************************************)
C17_NullsNotRanked ==
  BothColumns(call) /\ exc = NoExc =>
    LET m == call.metric.v
        valued == {i \in DOMAIN call.df.rows : call.df.rows[i].cells[m].t = "number"}
    IN  /\ ret.t = "DataFrame"
        /\ \A k \in DOMAIN ret.rows : ret.rows[k].cells[m].t = "number"
        /\ Len(ret.rows) = IF call.top_n.v < Cardinality(valued)
                            THEN call.top_n.v ELSE Cardinality(valued)

(***************************************************************************)
(* C18.  The table get_top_hours returns from a ranking has exactly the    *)
(* two columns Timestamp and the metric, in that order, and its row        *)
(* indices are 0, 1, ..., k-1 in rank order, whatever indices the selected *)
(* rows had in the input.                                                  *)
(***************************************************************************)
C18_TopTableShape ==
  BothColumns(call) /\ exc = NoExc =>
    /\ ret.t = "DataFrame"
    /\ ret.columns = <<"Timestamp", call.metric.v>>
    /\ DOMAIN ret.dtypes = {"Timestamp", call.metric.v}
    /\ \A k \in DOMAIN ret.rows :
         /\ DOMAIN ret.rows[k].cells = {"Timestamp", call.metric.v}
         /\ ret.rows[k].idx = k - 1

\* a ranking of a date-filtered table: its first row has index 1, the
\* largest value sits in a later row, and the result is indexed 0, 1
C18_Witness ==
  /\ BothColumns(call)
  /\ exc = NoExc
  /\ Len(call.df.rows) >= 2
  /\ call.df.rows[1].idx = 1
  /\ call.df.rows[1].cells["GHI"] = Number(1)
  /\ call.df.rows[2].cells["GHI"] = Number(9)
  /\ Len(ret.rows) = 2
  /\ ret.rows[1] = Row(0, [Timestamp |-> Timestamp(2), GHI |-> Number(9)])
  /\ ret.rows[2] = Row(1, [Timestamp |-> Timestamp(1), GHI |-> Number(1)])

(***************************************************************************)
(* C19.  The query operations never fail on missing columns or empty       *)
(* inputs: called on a dataset with zero rows or with no columns, with an  *)
(* absent metric or with an empty metrics list, each of                    *)
(* get_available_metrics, get_date_range, filter_by_date_range,            *)
(* get_summary_statistics and get_top_hours returns an empty or identity   *)
(* result instead of raising.                                              *)
(***************************************************************************)
\* the calls the statement is about; a filter is called with bounds that
\* are datetimes
DegenerateCall(c) ==
  /\ c.op \in QueryOps
  /\ c.op = "filter_by_date_range" => Parseable(c.start_date) /\ Parseable(c.end_date)
  /\ \/ c.df.rows = <<>>
     \/ c.df.columns = <<>>
     \/ c.op = "get_top_hours" /\ ~HasColumn(c.df, c.metric.v)
     \/ c.op = "get_summary_statistics" /\ PresentMetrics(c) # Range(c.metrics.v)
     \/ c.op = "get_summary_statistics" /\ c.metrics.v = <<>>

\* whether `result` is the empty or identity result of the call
DegenerateResult(c, result) ==
  CASE c.op = "get_available_metrics" ->
         result.t = "list" /\ (c.df.columns = <<>> => result.v = <<>>)
    [] c.op = "get_date_range" ->
         result.t = "tuple" /\ (c.df.columns = <<>> => result = Tuple(None, None))
    [] c.op = "filter_by_date_range" ->
         result = c.df
    [] c.op = "get_summary_statistics" ->
         result.t = "DataFrame" /\ (PresentMetrics(c) = {} => result.rows = <<>>)
    [] c.op = "get_top_hours" ->
         result.t = "DataFrame" /\ result.rows = <<>>

C19_QueriesNeverFail ==
  DegenerateCall(call) => exc = NoExc /\ DegenerateResult(call, ret)

(***************************************************************************)
(* C20.  Round trip: a dataset exported to comma-delimited text with a     *)
(* header row and no index column, and loaded again with timestamp         *)
(* parsing, comes back with the same number of rows, the same columns and  *)
(* the same non-null value in every cell; the cells that were null, null   *)
(* timestamps included, are null again.                                    *)
(***************************************************************************)
\* whether the session has just loaded the file it exported
Reloaded == call.op = "load_solar_data" /\ world.path = ExportPath

SameCell(before, after) == IF isna(before) THEN isna(after) ELSE after = before

C20_ExportRoundTrip ==
  Reloaded =>
    /\ exc = NoExc
    /\ ret.t = "DataFrame"
    /\ ret.columns = df.columns
    /\ Len(ret.rows) = Len(df.rows)
    /\ \A i \in DOMAIN df.rows : \A c \in Range(df.columns) :
         SameCell(df.rows[i].cells[c], ret.rows[i].cells[c])

(***************************************************************************)
(* C21.  Filtering a dataset by its own date range keeps every dated row:  *)
(* when get_date_range(ds) is (min, max), both non-null, the filter of ds  *)
(* by min and max returns exactly the rows of ds with a non-null           *)
(* timestamp, and get_date_range of the result is (min, max) again.  This  *)
(* is so for the bounds at full precision and for the bounds as calendar   *)
(* days, the form the dashboard passes.                                    *)
(***************************************************************************)
\* the rows of the dataset that have a timestamp, in order
DatedRows(frame) ==
  LET Dated(row) == ~NullCell(row.cells["Timestamp"])
  IN  SelectSeq(frame.rows, Dated)

\* the least and greatest timestamp of the dataset
OwnRange(frame) ==
  Tuple(Timestamp(Least(DatedInstants(frame))), Timestamp(Greatest(DatedInstants(frame))))

C21_OwnRangeKeepsDated ==
  [][/\ call'.op = "filter_by_date_range" =>
          /\ exc' = NoExc
          /\ ret'.rows = DatedRows(call'.df)
     /\ call.op = "filter_by_date_range" /\ call'.op = "get_date_range" =>
          ret' = OwnRange(call.df)]_vars


(***************************************************************************)
(* C22.  Runs of the dashboard in 'Use Local Path' mode.                   *)
(***************************************************************************)

\* a step that is one run of the script: the file behind the path is the
\* one the run found, and nothing was removed from the cache
RunStep ==
  /\ call'.op = "main"
  /\ world' = world \/ world'.path # world.path
  /\ DOMAIN cache \subseteq DOMAIN cache'

\* what the loader makes of the file at w.path: a table, or a failure
FreshLoad(w) == load_solar_data(w.path, TRUE, w.entry)

\* the dataset a load of w.path gives a run that starts with `stored` in
\* the cache, None when the load fails
LoadResult(w, stored) ==
  IF w.path \in DOMAIN stored THEN stored[w.path].value
  ELSE IF FreshLoad(w).exc = NoExc THEN FreshLoad(w).ret ELSE None

\* Load Data was pressed in the run `c` on the non-empty path of w
LoadPressed(c, w) == c.trigger = "load_button" /\ w.path # Path("", "")

\* the run shows the load failure as an error and nothing else
ShowsLoadError(w, stored, page) ==
  /\ Len(page.errors) = 1
  /\ page.errors[1][1] = "Error loading data: "
  /\ w.path \notin DOMAIN stored =>
       page.errors[1] = <<"Error loading data: ">> \o FreshLoad(w).exc.msg

\* a run has a dataset only when it loaded one; a run that did not shows
\* the getting-started screen; a load failure is shown and does not escape
RunsWithoutDataset ==
  /\ exc' = NoExc
  /\ df' # None => LoadPressed(call', world') /\ df' = LoadResult(world', cache)
  /\ ~(LoadPressed(call', world') /\ LoadResult(world', cache) # None) =>
       /\ df' = None
       /\ ret'.screen = "getting_started"
       /\ ret'.queries = <<>>
  /\ LoadPressed(call', world') /\ LoadResult(world', cache) = None =>
       ShowsLoadError(world', cache, ret')

====
